---- MODULE Spec2Model ----
(***************************************************************************)
(* A model of qtrlb's ProcessManager (src/qtrlb/config/process_manager.py): *)
(* the shape check of the IQ matrices run by load(), the routine dispatch   *)
(* of process_data() and the heralding mask builder heralding_test().       *)
(*                                                                          *)
(* Conventions.  Python indices are 0-based, sequences here are 1-based:    *)
(* repetition r of the source is row r+1, x_point i is column i+1.  The     *)
(* local j of heralding_test keeps its 0-based value (the number of rows    *)
(* already covered by the truncation window).  A Python dict is a function  *)
(* whose DOMAIN is its set of keys.  Floating point populations are kept    *)
(* as exact fractions: an integer numerator array and a denominator.        *)
(***************************************************************************)
EXTENDS Integers, Sequences, FiniteSets, TLC

\* ------------------------------------------------------------------ bounds
\* Largest number of repetitions (rows) of a label array.
MaxReps == 3
\* Largest number of x_points (columns) of a label array.
MaxPoints == 2
\* Largest number of readout levels of a resonator in a process.yaml.
MaxLevels == 2

\* The resonators a measurement batch may hold, in dict order.
Resonators == <<"R1", "R2">>

VARIABLES
    yaml,            \* process.yaml on disk: the flags and, per resonator, the matrices
    config,          \* the in-memory config dict of the ProcessManager (self[...])
    measurement,     \* self.measurement: [keys: the dict's keys in order, data: key -> data_dict]
    keysView,        \* TRUE: self.measurement.keys() is a dict view (a plain dict), not a list
    argSame,         \* TRUE: the argument `measurement` is the object self.measurement
    pc,              \* position in process_data / heralding_test
    err,             \* the exception that left the call, "none" otherwise
    routine,         \* the routine process_data entered, "none" before dispatch
    k,               \* index into measurement.keys of the running for-loop
    pd_mask,         \* process_data's local heralding_mask, <<>> before line 89
    resonators,      \* heralding_test's local `resonators`
    heralding_mask,  \* heralding_test's local heralding_mask
    n_pass_min,      \* heralding_test's local n_pass_min
    i,               \* heralding_test's column loop variable (1-based column)
    j                \* heralding_test's local j (0-based window start)

vars == <<yaml, config, measurement, keysView, argSame, pc, err, routine, k,
          pd_mask, resonators, heralding_mask, n_pass_min, i, j>>

cfgVars == <<yaml, config>>
pdVars  == <<argSame, routine, k, pd_mask>>
htVars  == <<resonators, heralding_mask, n_pass_min, i, j>>

\* ------------------------------------------------------------- array helpers
Min(a, b) == IF a <= b THEN a ELSE b

\* An R x P array is a sequence of R rows, each a sequence of P entries.
NRows(a) == Len(a)
NCols(a) == IF Len(a) = 0 THEN 0 ELSE Len(a[1])

Arrays(R, P, V) == [1..R -> [1..P -> V]]

ConstArray(R, P, v) == [r \in 1..R |-> [p \in 1..P |-> v]]

\* The arrays with at most one nonzero entry, taken from V.
SparseArrays(R, P, V) ==
    {ConstArray(R, P, 0)} \cup
    {[r \in 1..R |-> [p \in 1..P |-> IF r = rr /\ p = pp THEN v ELSE 0]] :
        rr \in 1..R, pp \in 1..P, v \in V \ {0}}

\* np.zeros_like(a)
ZerosLike(a) == [r \in 1..NRows(a) |-> [p \in 1..NCols(a) |-> 0]]

\* The bitwise OR of two non-negative integers (numpy's | on integer labels).
RECURSIVE BitOrWrong(_, _)
BitOrWrong(a, b) ==
    IF a = 0 \/ b = 0 THEN 0
    ELSE (IF a % 2 = 1 /\ b % 2 = 1 THEN 1 ELSE 0) + 2 * BitOrWrong(a \div 2, b \div 2)

RECURSIVE BitOr(_, _)
BitOr(a, b) ==
    IF a = 0 THEN b
    ELSE IF b = 0 THEN a
    ELSE (IF a % 2 = 1 \/ b % 2 = 1 THEN 1 ELSE 0) + 2 * BitOr(a \div 2, b \div 2)

\* heralding_mask | labels, elementwise (line 151).
ArrayOr(a, b) == [r \in 1..NRows(a) |-> [p \in 1..NCols(a) |-> BitOr(a[r][p], b[r][p])]]

\* np.sum(heralding_mask[:, i] == 0): the number of 0 entries of column c.
Count0(a, c) == Cardinality({r \in 1..NRows(a) : a[r][c] = 0})

\* np.min(np.sum(heralding_mask == 0, axis=0)) (line 153); a has at least one column.
NPassMin(a) ==
    CHOOSE n \in 0..NRows(a) :
        /\ \E c \in 1..NCols(a) : Count0(a, c) = n
        /\ \A c \in 1..NCols(a) : Count0(a, c) >= n

\* n_short counted one too few, and as every pass of the column.
NShortOneLess(a, c, npm) == Count0(a, c) - npm - 1

NShortAll(a, c, npm) == Count0(a, c)

\* n_short of line 158.
NShort(a, c, npm) == Count0(a, c) - npm

\* heralding_mask[j : j + n_short, i] = -1 (line 159): rows j .. j+n_short-1 of the
\* source, clipped to the array as a numpy slice is; every row of the window is
\* overwritten, whatever it held.
SliceAssignPassingOnly(a, jj, n, c) ==
    [r \in 1..NRows(a) |->
        [p \in 1..NCols(a) |->
            IF p = c /\ r >= jj + 1 /\ r <= Min(jj + n, NRows(a)) /\ a[r][p] = 0
            THEN -1 ELSE a[r][p]]]

SliceAssignFromEnd(a, jj, n, c) ==
    [r \in 1..NRows(a) |->
        [p \in 1..NCols(a) |->
            IF p = c /\ r <= NRows(a) - jj /\ r >= NRows(a) - jj - n + 1
            THEN -1 ELSE a[r][p]]]

SliceAssign(a, jj, n, c) ==
    [r \in 1..NRows(a) |->
        [p \in 1..NCols(a) |->
            IF p = c /\ r >= jj + 1 /\ r <= Min(jj + n, NRows(a))
            THEN -1 ELSE a[r][p]]]

\* ------------------------------------------------------------ configuration
\* np.identity(n).tolist()
Identity(n) == [a \in 1..n |-> [b \in 1..n |-> IF a = b THEN 1 ELSE 0]]

\* Other corr_matrix values a process.yaml may hold: all ones (singular for n > 1)
\* and upper triangular ones (invertible, not symmetric for n > 1).
AllOnes(n) == [a \in 1..n |-> [b \in 1..n |-> 1]]
UpperOnes(n) == [a \in 1..n |-> [b \in 1..n |-> IF a <= b THEN 1 ELSE 0]]

\* The matrices check_IQ_matrices generates (lines 53-55).
DefaultCovariances(n) == [a \in 1..n |-> 1]
DefaultMeans(n) == [a \in 1..n |-> <<a - 1, a - 1>>]

\* The assert of lines 47-48: a chained comparison of the four lengths.
ShapesAgreeMeansOnly(n, rc) == n = Len(rc.IQ_means)

ShapesAgree(n, rc) ==
    /\ n = Len(rc.IQ_means)
    /\ Len(rc.IQ_means) = Len(rc.IQ_covariances)
    /\ Len(rc.IQ_covariances) = Len(rc.corr_matrix)

\* check_IQ_matrices for one resonator (the body of the loop, lines 44-55).
CheckResonator(rc) ==
    LET n == Len(rc.readout_levels)
    IN  IF ShapesAgree(n, rc)
        THEN [readout_levels |-> rc.readout_levels, n_readout_levels |-> n,
              IQ_means |-> rc.IQ_means, IQ_covariances |-> rc.IQ_covariances,
              corr_matrix |-> rc.corr_matrix]
        ELSE [readout_levels |-> rc.readout_levels, n_readout_levels |-> n,
              IQ_means |-> DefaultMeans(n), IQ_covariances |-> DefaultCovariances(n),
              corr_matrix |-> Identity(n)]

\* The keys of the yaml that start with 'R', in file order (line 32).
ResonatorsList(y) == SelectSeq(Resonators, LAMBDA r : r \in DOMAIN y.res)

\* load(): the parent load reads the yaml, then lines 32-34.
LoadResult(y) ==
    [customized |-> y.customized, heralding |-> y.heralding,
     classification |-> y.classification,
     resonators |-> ResonatorsList(y),
     res |-> [r \in DOMAIN y.res |-> CheckResonator(y.res[r])]]

\* The config dict of a ProcessManager whose load() has not run yet.
NotLoaded == [resonators |-> <<>>]

IsLoaded(c) == "res" \in DOMAIN c

\* What save() writes back for a loaded config: the entries the yaml holds.
YamlOf(c) ==
    [customized |-> c.customized, heralding |-> c.heralding,
     classification |-> c.classification,
     res |-> [r \in DOMAIN c.res |->
                [readout_levels |-> c.res[r].readout_levels,
                 IQ_means |-> c.res[r].IQ_means,
                 IQ_covariances |-> c.res[r].IQ_covariances,
                 corr_matrix |-> c.res[r].corr_matrix]]]

\* The values a process.yaml may hold for one resonator.
LevelsChoices == {[a \in 1..n |-> a - 1] : n \in 0..MaxLevels}
MeansChoices == {[a \in 1..n |-> <<2 * a, 0>>] : n \in 0..MaxLevels}
CovariancesChoices == {[a \in 1..n |-> 2] : n \in 0..MaxLevels}
CorrChoices == UNION {{Identity(n), AllOnes(n), UpperOnes(n)} : n \in 0..MaxLevels}

YamlResonators ==
    [readout_levels : LevelsChoices, IQ_means : MeansChoices,
     IQ_covariances : CovariancesChoices, corr_matrix : CorrChoices]

\* A resonator entry whose shapes agree, with MaxLevels readout levels.
ValidResonator(corr) ==
    [readout_levels |-> [a \in 1..MaxLevels |-> a - 1],
     IQ_means |-> [a \in 1..MaxLevels |-> <<2 * a, 0>>],
     IQ_covariances |-> [a \in 1..MaxLevels |-> 2],
     corr_matrix |-> corr]

Flags(c, h, cl, res) == [customized |-> c, heralding |-> h, classification |-> cl, res |-> res]

\* The yaml of the mask builder's runs: the heralding routine, identity corr_matrix.
HeraldingYaml ==
    Flags(FALSE, TRUE, FALSE,
          [r \in {Resonators[a] : a \in 1..Len(Resonators)} |->
              ValidResonator(Identity(MaxLevels))])

\* load() (lines 26-34); it never writes the yaml.
Load ==
    /\ pc = "idle"
    /\ config' = LoadResult(yaml)
    /\ UNCHANGED <<yaml, measurement, keysView, pc, err, pdVars, htVars>>

\* save(): the loaded config goes back to the yaml.
Save ==
    /\ pc = "idle"
    /\ IsLoaded(config)
    /\ yaml' = YamlOf(config)
    /\ UNCHANGED <<config, measurement, keysView, pc, err, pdVars, htVars>>

\* ------------------------------------------------------------- dict helpers
\* d[key] = v on a Python dict.
Put(d, key, v) == [x \in (DOMAIN d) \cup {key} |-> IF x = key THEN v ELSE d[x]]

Has(d, key) == key \in DOMAIN d

\* The keys of a raw data_dict of a fresh batch.
RawKeys == {"Heterodyned_readout", "Heterodyned_heralding"}

\* A batch whose channels are the first n resonators.
Batch(keys, data) == [keys |-> keys, data |-> data]

\* self.measurement[r]['GMMpredicted_heralding']
HeraldLabels(m, r) == m.data[r]["GMMpredicted_heralding"]

\* --------------------------------------------------------- heralding_test
\* Lines 147-148.  resonators[0] needs an indexable, non-empty keys(): a dict view
\* raises TypeError, an empty list IndexError.
FirstKeyFailsOnView(m, view) == view

FirstKeyFails(m, view) == view \/ Len(m.keys) = 0

\* self.measurement[resonators[0]]['GMMpredicted_heralding'] (line 148), read only
\* when resonators[0] exists.
FirstLabels(m) == IF Len(m.keys) = 0 THEN <<>> ELSE HeraldLabels(m, m.keys[1])

HT_Begin ==
    /\ pc = "ht_begin"
    /\ IF FirstKeyFails(measurement, keysView)
       THEN /\ pc' = "raised"
            /\ err' = IF keysView THEN "TypeError" ELSE "IndexError"
            /\ UNCHANGED <<resonators, heralding_mask, k>>
       ELSE /\ resonators' = measurement.keys
            /\ heralding_mask' = ZerosLike(FirstLabels(measurement))
            /\ k' = 1
            /\ pc' = "ht_or"
            /\ err' = err
    /\ UNCHANGED <<cfgVars, measurement, keysView, argSame, routine, pd_mask, n_pass_min, i, j>>

\* Lines 150-151, one resonator per step.
HT_Or ==
    /\ pc = "ht_or"
    /\ k <= Len(resonators)
    /\ heralding_mask' = ArrayOr(heralding_mask, HeraldLabels(measurement, resonators[k]))
    /\ k' = k + 1
    /\ UNCHANGED <<cfgVars, measurement, keysView, argSame, pc, err, routine, pd_mask,
                   resonators, n_pass_min, i, j>>

\* Line 153.  np.min of an array without columns raises ValueError.
HT_Min ==
    /\ pc = "ht_or"
    /\ k > Len(resonators)
    /\ IF NCols(heralding_mask) = 0
       THEN /\ pc' = "raised"
            /\ err' = "ValueError"
            /\ UNCHANGED <<n_pass_min, i>>
       ELSE /\ n_pass_min' = NPassMin(heralding_mask)
            /\ i' = 0
            /\ pc' = "ht_for"
            /\ err' = err
    /\ UNCHANGED <<cfgVars, measurement, keysView, argSame, routine, k, pd_mask,
                   resonators, heralding_mask, j>>

\* Lines 155-156: the next x_point, j = 0.
HT_For ==
    /\ pc = "ht_for"
    /\ i < NCols(heralding_mask)
    /\ i' = i + 1
    /\ j' = 0
    /\ pc' = "ht_while"
    /\ UNCHANGED <<cfgVars, measurement, keysView, argSame, err, routine, k, pd_mask,
                   resonators, heralding_mask, n_pass_min>>

\* Lines 157-160: one iteration of the while loop.
HT_While ==
    /\ pc = "ht_while"
    /\ Count0(heralding_mask, i) > n_pass_min
    /\ LET n_short == NShort(heralding_mask, i, n_pass_min)
       IN  /\ heralding_mask' = SliceAssign(heralding_mask, j, n_short, i)
           /\ j' = j + n_short
    /\ UNCHANGED <<cfgVars, measurement, keysView, argSame, pc, err, routine, k, pd_mask,
                   resonators, n_pass_min, i>>

\* Line 157, condition false: back to the for loop.
HT_WhileExit ==
    /\ pc = "ht_while"
    /\ ~(Count0(heralding_mask, i) > n_pass_min)
    /\ pc' = "ht_for"
    /\ UNCHANGED <<cfgVars, measurement, keysView, argSame, err, routine, k, pd_mask,
                   resonators, heralding_mask, n_pass_min, i, j>>

\* Line 162.
HT_Return ==
    /\ pc = "ht_for"
    /\ i >= NCols(heralding_mask)
    /\ pc' = "ht_returned"
    /\ UNCHANGED <<cfgVars, measurement, keysView, argSame, err, routine, k, pd_mask, htVars>>

\* The combined mask heralding_test holds after its first loop (lines 148-151): the
\* OR of every resonator's heralding labels, folded over the keys in order.
RECURSIVE OrAll(_, _, _)
OrAll(m, keys, acc) ==
    IF keys = <<>> THEN acc
    ELSE OrAll(m, Tail(keys), ArrayOr(acc, HeraldLabels(m, Head(keys))))

CombinedMask(m) == OrAll(m, m.keys, ZerosLike(FirstLabels(m)))

HeraldingTest ==
    \/ HT_Begin
    \/ HT_Or
    \/ HT_Min
    \/ HT_For
    \/ HT_While
    \/ HT_WhileExit
    \/ HT_Return

\* ------------------------------------------------------------ populations
\* Column p of a K x P array, as a sequence of K entries.
Column(a, p) == [l \in 1..Len(a) |-> a[l][p]]

\* The rows of column p that normalize_population counts: those whose mask entry is
\* 0, every row when no mask is given (mask = <<>>).
Counted(labels, mask, p) ==
    {r \in 1..NRows(labels) : mask = <<>> \/ mask[r][p] = 0}

\* normalize_population(labels, n_levels, mask): per x_point, the share of the
\* counted shots found in each level 0..n_levels-1, as num[level][p] / den[p].
NormalizePopulation(labels, n_levels, mask) ==
    [num |-> [l \in 1..n_levels |->
                [p \in 1..NCols(labels) |->
                    Cardinality({r \in Counted(labels, mask, p) : labels[r][p] = l - 1})]],
     den |-> [p \in 1..NCols(labels) |-> Cardinality(Counted(labels, mask, p))]]

\* A column without a counted shot has no population.
EmptyColumn(labels, mask) ==
    \E p \in 1..NCols(labels) : Counted(labels, mask, p) = {}

\* The matrix a without row 1 and column c.
Minor(a, c) ==
    [x \in 1..(Len(a) - 1) |->
        [y \in 1..(Len(a) - 1) |-> a[x + 1][IF y < c THEN y ELSE y + 1]]]

\* The determinant, by expansion along the first row.
RECURSIVE Det(_)
Det(a) ==
    IF Len(a) = 0 THEN 1
    ELSE LET term[c \in 0..Len(a)] ==
                 IF c = 0 THEN 0
                 ELSE term[c - 1]
                      + (IF c % 2 = 1 THEN 1 ELSE -1) * a[1][c] * Det(Minor(a, c))
         IN  term[Len(a)]

\* a with column c replaced by the vector v (Cramer's rule).
ReplaceColumn(a, c, v) ==
    [x \in 1..Len(a) |-> [y \in 1..Len(a) |-> IF y = c THEN v[x] ELSE a[x][y]]]

\* np.linalg.solve(a, b) for an invertible a: the x with a . x = b, column by
\* column; x[l][p] = Det(a with column l replaced by b[:, p]) / Det(a).
Solve(a, b) ==
    [num |-> [l \in 1..Len(a) |->
                [p \in 1..Len(b.den) |-> Det(ReplaceColumn(a, l, Column(b.num, p)))]],
     den |-> [p \in 1..Len(b.den) |-> Det(a) * b.den[p]]]

\* np.linalg.solve raises LinAlgError on a singular matrix.
Singular(a) == Det(a) = 0

\* ------------------------------------------------------------ process_data
\* The label arrays gmm_predict may return for a batch of MaxReps x MaxPoints
\* shots classified into n levels.
ReadoutFamily(n) ==
    {ConstArray(MaxReps, MaxPoints, 0),
     [r \in 1..MaxReps |-> [p \in 1..MaxPoints |-> (r + p) % n]]}

HeraldFamily(n) ==
    SparseArrays(MaxReps, MaxPoints, {0, n - 1}) \cup {ConstArray(MaxReps, MaxPoints, n - 1)}

\* The data_dict of a channel of a fresh batch: the heralding trace is acquired
\* when the heralding flag adds that pulse to the sequence.
FreshDict(cfg) ==
    [x \in {"Heterodyned_readout"}
           \cup (IF cfg.heralding THEN {"Heterodyned_heralding"} ELSE {}) |-> "trace"]

\* A fresh batch of the first n resonators.
FreshBatch(cfg, n) ==
    Batch(SubSeq(Resonators, 1, n),
          [r \in {Resonators[a] : a \in 1..n} |-> FreshDict(cfg)])

\* The if / elif chain of lines 70, 74, 104, 122.
RoutineClassificationFirst(cfg) ==
    IF cfg.customized THEN "customized"
    ELSE IF cfg.classification THEN "classification"
    ELSE IF cfg.heralding THEN "heralding"
    ELSE "bare"

Routine(cfg) ==
    IF cfg.customized THEN "customized"
    ELSE IF cfg.heralding THEN "heralding"
    ELSE IF cfg.classification THEN "classification"
    ELSE "bare"

\* The batch bound to the parameter `measurement` of line 58: self.measurement
\* itself, or another fresh batch of the same channels that no line touches.
ArgBatch ==
    IF argSame THEN measurement ELSE FreshBatch(config, Len(measurement.keys))

\* A caller acquires a batch and calls process_data(measurement, fitmodel).  The
\* body never reads the parameter: it works on self.measurement, which is the
\* passed batch only when the caller stored that same object there.
Call ==
    /\ pc = "idle"
    /\ \E n \in 0..Len(Resonators) : measurement' = FreshBatch(config, n)
    /\ keysView' \in BOOLEAN
    /\ argSame' \in BOOLEAN
    /\ pc' = "dispatch"
    /\ err' = "none"
    /\ routine' = "none"
    /\ k' = 0
    /\ pd_mask' = <<>>
    /\ resonators' = <<>>
    /\ heralding_mask' = <<>>
    /\ n_pass_min' = 0
    /\ i' = 0
    /\ j' = 0
    /\ UNCHANGED cfgVars

\* Lines 70-74, 104, 122: the first flag that is set selects the routine.
Dispatch ==
    /\ pc = "dispatch"
    /\ routine' = Routine(config)
    /\ k' = 1
    /\ pc' = CASE Routine(config) = "customized" -> "pd_end"
               [] Routine(config) = "heralding" -> "hd_classify"
               [] Routine(config) = "classification" -> "cl_loop"
               [] OTHER -> "bare_loop"
    /\ UNCHANGED <<cfgVars, measurement, keysView, argSame, err, pd_mask, htVars>>

\* data_dict of the channel the running loop is at.
Current == measurement.data[measurement.keys[k]]

SetCurrent(d) ==
    [measurement EXCEPT !.data = [measurement.data EXCEPT ![measurement.keys[k]] = d]]

\* Lines 76-87 for one channel: rotate and classify the readout and the heralding
\* trace.  The classifier's labels are any array of its family.
HD_Classify ==
    /\ pc = "hd_classify"
    /\ k <= Len(measurement.keys)
    /\ LET n == config.res[measurement.keys[k]].n_readout_levels
       IN  \E readout \in ReadoutFamily(n), heralding \in HeraldFamily(n) :
               measurement' =
                   SetCurrent(Put(Put(Put(Put(Current,
                       "IQrotated_readout", "rotated"),
                       "IQrotated_heralding", "rotated"),
                       "GMMpredicted_readout", readout),
                       "GMMpredicted_heralding", heralding))
    /\ k' = k + 1
    /\ UNCHANGED <<cfgVars, keysView, argSame, pc, err, routine, pd_mask, htVars>>

\* heralding_test called from inside the loop of lines 76-87, before its last
\* channel is classified.
HD_CallTestInsideLoop ==
    /\ pc = "hd_classify"
    /\ k >= Len(measurement.keys)
    /\ pc' = "ht_begin"
    /\ UNCHANGED <<cfgVars, measurement, keysView, argSame, err, routine, k, pd_mask, htVars>>

\* Line 89: the call of heralding_test.
HD_CallTest ==
    /\ pc = "hd_classify"
    /\ k > Len(measurement.keys)
    /\ pc' = "ht_begin"
    /\ UNCHANGED <<cfgVars, measurement, keysView, argSame, err, routine, k, pd_mask, htVars>>

\* Line 89: the returned mask is bound to process_data's heralding_mask.
HD_Assign ==
    /\ pc = "ht_returned"
    /\ routine = "heralding"
    /\ pd_mask' = heralding_mask
    /\ k' = 1
    /\ pc' = "hd_finish"
    /\ UNCHANGED <<cfgVars, measurement, keysView, argSame, err, routine, htVars>>

\* Lines 94-101 or 113-119 for one data_dict d that already holds its mask (or has
\* none): normalize, correct, publish.  The keys written before an exception stay.
\* A column without a counted shot is signalled by normalize_population as an error.
Correct(d, cfg, mask) ==
    LET norm == NormalizePopulation(d["GMMpredicted_readout"], cfg.n_readout_levels, mask)
        d1   == Put(d, "PopulationNormalized_readout", norm)
        corr == Solve(cfg.corr_matrix, norm)
    IN  IF EmptyColumn(d["GMMpredicted_readout"], mask)
        THEN [dict |-> d, err |-> "EmptyColumnError"]
        ELSE IF Singular(cfg.corr_matrix)
        THEN [dict |-> d1, err |-> "LinAlgError"]
        ELSE [dict |-> Put(Put(d1, "PopulationCorrected_readout", corr), "to_fit", corr),
              err |-> "none"]

\* Lines 91-101 for one channel.
HD_Finish ==
    /\ pc = "hd_finish"
    /\ k <= Len(measurement.keys)
    /\ LET res == Correct(Put(Current, "Mask_heralding", pd_mask),
                          config.res[measurement.keys[k]], pd_mask)
       IN  /\ measurement' = SetCurrent(res.dict)
           /\ err' = res.err
           /\ pc' = IF res.err = "none" THEN pc ELSE "raised"
    /\ k' = k + 1
    /\ UNCHANGED <<cfgVars, keysView, argSame, routine, pd_mask, htVars>>

\* Lines 105-119 for one channel.
CL_Step ==
    /\ pc = "cl_loop"
    /\ k <= Len(measurement.keys)
    /\ LET n == config.res[measurement.keys[k]].n_readout_levels
       IN  \E readout \in ReadoutFamily(n) :
               LET res == Correct(Put(Put(Current, "IQrotated_readout", "rotated"),
                                      "GMMpredicted_readout", readout),
                                  config.res[measurement.keys[k]], <<>>)
               IN  /\ measurement' = SetCurrent(res.dict)
                   /\ err' = res.err
                   /\ pc' = IF res.err = "none" THEN pc ELSE "raised"
    /\ k' = k + 1
    /\ UNCHANGED <<cfgVars, keysView, argSame, routine, pd_mask, htVars>>

\* Lines 123-132 for one channel.
Bare_Step ==
    /\ pc = "bare_loop"
    /\ k <= Len(measurement.keys)
    /\ measurement' =
           SetCurrent(Put(Put(Put(Put(Current,
               "IQrotated_readout", "rotated"),
               "IQautorotated_readout", "autorotated"),
               "IQaveraged_readout", "averaged"),
               "to_fit", "averaged"))
    /\ k' = k + 1
    /\ UNCHANGED <<cfgVars, keysView, argSame, pc, err, routine, pd_mask, htVars>>

\* The end of the routine's last loop, or the `pass` of line 71: process_data returns.
PD_Return ==
    /\ \/ pc = "pd_end"
       \/ pc \in {"hd_finish", "cl_loop", "bare_loop"} /\ k > Len(measurement.keys)
    /\ pc' = "returned"
    /\ UNCHANGED <<cfgVars, measurement, keysView, argSame, err, routine, k, pd_mask, htVars>>

ProcessData ==
    \/ Call
    \/ Dispatch
    \/ HD_Classify
    \/ HD_CallTest
    \/ HD_Assign
    \/ HD_Finish
    \/ CL_Step
    \/ Bare_Step
    \/ PD_Return

\* --------------------------------------------------------- specifications
\* The data_dict of a channel when line 89 is reached.
ClassifiedDict(readout, heralding) ==
    [x \in RawKeys \cup {"IQrotated_readout", "IQrotated_heralding",
                         "GMMpredicted_readout", "GMMpredicted_heralding"} |->
        CASE x = "GMMpredicted_readout" -> readout
          [] x = "GMMpredicted_heralding" -> heralding
          [] x \in {"IQrotated_readout", "IQrotated_heralding"} -> "rotated"
          [] OTHER -> "trace"]

NoChannels == [r \in {} |-> <<>>]

\* The batches of R x P shots heralding_test is run on: no channel, one channel
\* with any labels in {0, 1}, or two channels, the second with at most one failed
\* shot, labelled 2.
MaskBatches(R, P) ==
    {Batch(<<>>, NoChannels)}
    \cup
    {Batch(<<"R1">>, [r \in {"R1"} |-> ClassifiedDict(ConstArray(R, P, 0), h1)]) :
        h1 \in Arrays(R, P, 0..1)}
    \cup
    {Batch(<<"R1", "R2">>,
           [r \in {"R1", "R2"} |->
               ClassifiedDict(ConstArray(R, P, 0), IF r = "R1" THEN h1 ELSE h2)]) :
        h1 \in Arrays(R, P, 0..1), h2 \in SparseArrays(R, P, {0, 2})}

InitMask ==
    /\ yaml = HeraldingYaml
    /\ config = LoadResult(yaml)
    /\ \E R \in 1..MaxReps, P \in 1..MaxPoints : measurement \in MaskBatches(R, P)
    /\ keysView \in BOOLEAN
    /\ argSame = TRUE
    /\ pc = "ht_begin"
    /\ err = "none"
    /\ routine = "none"
    /\ k = 0
    /\ pd_mask = <<>>
    /\ resonators = <<>>
    /\ heralding_mask = <<>>
    /\ n_pass_min = 0
    /\ i = 0
    /\ j = 0

\* heralding_test on every batch of MaskBatches.
SpecMask == InitMask /\ [][HeraldingTest]_vars

\* One classified channel with any labels in {0, 1}: the combined mask of lines
\* 148-151 is then any R x P pattern of passing and failed shots.
LoopBatches(R, P) ==
    {Batch(<<"R1">>, [r \in {"R1"} |-> ClassifiedDict(ConstArray(R, P, 0), h1)]) :
        h1 \in Arrays(R, P, 0..1)}

InitLoop ==
    /\ yaml = HeraldingYaml
    /\ config = LoadResult(yaml)
    /\ \E R \in 1..MaxReps, P \in 1..MaxPoints : measurement \in LoopBatches(R, P)
    /\ keysView \in BOOLEAN
    /\ argSame = TRUE
    /\ pc = "ht_begin"
    /\ err = "none"
    /\ routine = "none"
    /\ k = 0
    /\ pd_mask = <<>>
    /\ resonators = <<>>
    /\ heralding_mask = <<>>
    /\ n_pass_min = 0
    /\ i = 0
    /\ j = 0

\* heralding_test run to its end on every pattern of LoopBatches: a call that has
\* started keeps executing its next statement for as long as it has one.
SpecLoop == InitLoop /\ [][HeraldingTest]_vars /\ WF_vars(HeraldingTest)

\* The yamls of the pipeline's runs: any flags, both resonators with agreeing
\* shapes and a corr_matrix that is the identity, singular, or (R1) not symmetric.
PipelineYamls ==
    {Flags(c, h, cl, [r \in {"R1", "R2"} |-> ValidResonator(IF r = "R1" THEN m1 ELSE m2)]) :
        c \in BOOLEAN, h \in BOOLEAN, cl \in BOOLEAN,
        m1 \in {Identity(MaxLevels), AllOnes(MaxLevels), UpperOnes(MaxLevels)},
        m2 \in {Identity(MaxLevels), AllOnes(MaxLevels)}}

\* A ProcessManager after construction (its __init__ has run load()), no batch yet.
Init ==
    /\ yaml \in PipelineYamls
    /\ config = LoadResult(yaml)
    /\ measurement = Batch(<<>>, NoChannels)
    /\ keysView = FALSE
    /\ argSame = TRUE
    /\ pc = "idle"
    /\ err = "none"
    /\ routine = "none"
    /\ k = 0
    /\ pd_mask = <<>>
    /\ resonators = <<>>
    /\ heralding_mask = <<>>
    /\ n_pass_min = 0
    /\ i = 0
    /\ j = 0

Next == ProcessData \/ HeraldingTest

\* One call of process_data on a fresh batch, for every yaml of PipelineYamls.
Spec == Init /\ [][Next]_vars

\* The yamls load() may find: no, one or two resonators, each with any lengths.
LoadYamls(S) == {Flags(FALSE, FALSE, FALSE, res) : res \in [S -> YamlResonators]}

\* A ProcessManager whose __init__ is about to run load() (line 23).
InitLoad ==
    /\ \E S \in {{}, {"R1"}, {"R1", "R2"}} : yaml \in LoadYamls(S)
    /\ config = NotLoaded
    /\ measurement = Batch(<<>>, NoChannels)
    /\ keysView = FALSE
    /\ argSame = TRUE
    /\ pc = "idle"
    /\ err = "none"
    /\ routine = "none"
    /\ k = 0
    /\ pd_mask = <<>>
    /\ resonators = <<>>
    /\ heralding_mask = <<>>
    /\ n_pass_min = 0
    /\ i = 0
    /\ j = 0

NextLoad == Load \/ Save

\* load() and save() on every yaml of LoadYamls.
SpecLoad == InitLoad /\ [][NextLoad]_vars

\* ------------------------------------------------------------------ claims
\* heralding_test has returned its mask (line 162).
Returned == pc = "ht_returned"

\* The rows of column c that pass (are 0) in array a.
Passing(a, c) == {r \in 1..NRows(a) : a[r][c] = 0}

\* The n passing rows of column c with the lowest repetition indices.
LowestPassing(a, c, n) ==
    {r \in Passing(a, c) : Cardinality({q \in Passing(a, c) : q < r}) < n}

\* The number of passing rows of column c above n_pass_min, before truncation.
Excess(a, c) == Count0(a, c) - NPassMin(a)

\* C1: every x_point column of the returned mask holds exactly n_pass_min entries
\* equal to 0, n_pass_min being the least number of 0 entries of a column of the
\* combined mask before truncation.
C1_ColumnsBalanced ==
    Returned =>
        \A c \in 1..NCols(heralding_mask) :
            Count0(heralding_mask, c) = NPassMin(CombinedMask(measurement))

C1_Witness ==
    /\ Returned
    /\ NPassMin(CombinedMask(measurement)) >= 1
    /\ \E c \in 1..NCols(heralding_mask) : Excess(CombinedMask(measurement), c) >= 1

\* C2: in a column with more than n_pass_min passes, the passes turned into -1 are
\* exactly the (passes - n_pass_min) passes of lowest repetition index; every pass
\* of a higher index stays 0.
C2_LowestPassesTruncated ==
    Returned =>
        LET comb == CombinedMask(measurement)
        IN  \A c \in 1..NCols(comb) :
                Excess(comb, c) > 0 =>
                    /\ {r \in Passing(comb, c) : heralding_mask[r][c] = -1}
                           = LowestPassing(comb, c, Excess(comb, c))
                    /\ \A r \in Passing(comb, c) \ LowestPassing(comb, c, Excess(comb, c)) :
                           heralding_mask[r][c] = 0

\* A column with a failed shot between its passes loses its two lowest passes.
C2_Witness ==
    /\ Returned
    /\ LET comb == CombinedMask(measurement)
       IN  \E c \in 1..NCols(comb) :
               /\ Excess(comb, c) = 2
               /\ \E r \in 1..NRows(comb) :
                      /\ comb[r][c] # 0
                      /\ \E lo \in Passing(comb, c) : lo < r
                      /\ \E hi \in Passing(comb, c) : hi > r

\* C3 as stated: the truncation leaves every herald-failed entry as it was, so only
\* entries that were 0 are -1 in the returned mask.
C3_FailedEntriesKept ==
    Returned =>
        LET comb == CombinedMask(measurement)
        IN  \A r \in 1..NRows(comb), c \in 1..NCols(comb) :
                comb[r][c] # 0 => heralding_mask[r][c] = comb[r][c]

\* The row of the last pass that is truncated in column c (its n-th pass).
LastTruncated(a, c, n) ==
    CHOOSE r \in LowestPassing(a, c, n) : \A q \in LowestPassing(a, c, n) : q <= r

\* C3 amended: in a column with more than n_pass_min passes the truncation
\* overwrites a prefix of rows: every entry, passing or herald-failed, up to the
\* row of the last truncated pass is -1, every entry below it keeps its value; a
\* column with n_pass_min passes is unchanged.
C3_PrefixOverwritten ==
    Returned =>
        LET comb == CombinedMask(measurement)
        IN  \A c \in 1..NCols(comb) :
                IF Excess(comb, c) > 0
                THEN LET last == LastTruncated(comb, c, Excess(comb, c))
                     IN  \A r \in 1..NRows(comb) :
                             heralding_mask[r][c] = IF r <= last THEN -1 ELSE comb[r][c]
                ELSE \A r \in 1..NRows(comb) : heralding_mask[r][c] = comb[r][c]

\* A herald-failed entry was overwritten by the sentinel.
C3_Witness ==
    /\ Returned
    /\ \E r \in 1..NRows(heralding_mask), c \in 1..NCols(heralding_mask) :
           /\ CombinedMask(measurement)[r][c] > 0
           /\ heralding_mask[r][c] = -1

\* Every resonator has been OR-ed into the mask and line 153 has not run yet.
Combined == pc = "ht_or" /\ k > Len(resonators)

\* C4: before truncation the combined entry at (repetition, x_point) is 0 exactly
\* when every channel's heralding label there is 0, and nonzero otherwise.
C4_ZeroIffAllZero ==
    Combined =>
        \A r \in 1..NRows(heralding_mask), c \in 1..NCols(heralding_mask) :
            (heralding_mask[r][c] = 0)
                <=> (\A a \in 1..Len(measurement.keys) :
                        HeraldLabels(measurement, measurement.keys[a])[r][c] = 0)

\* Two channels: one entry fails in both, one in the second only, one in neither.
C4_Witness ==
    /\ Combined
    /\ Len(measurement.keys) = 2
    /\ LET h1 == HeraldLabels(measurement, "R1")
           h2 == HeraldLabels(measurement, "R2")
       IN  /\ \E r \in 1..NRows(h1), c \in 1..NCols(h1) :
                  h1[r][c] = 1 /\ h2[r][c] = 2 /\ heralding_mask[r][c] = 3
           /\ \E r \in 1..NRows(h1), c \in 1..NCols(h1) : h1[r][c] = 1 /\ h2[r][c] = 0
           /\ \E r \in 1..NRows(h1), c \in 1..NCols(h1) : h1[r][c] = 0 /\ h2[r][c] = 0

\* The routine the flags select, in the priority the claim states.
Selected ==
    IF config.customized THEN "customized"
    ELSE IF config.heralding THEN "heralding"
    ELSE IF config.classification THEN "classification"
    ELSE "bare"

\* The keys a routine adds to a data_dict.
DerivedKeys(r) ==
    CASE r = "heralding" ->
           {"IQrotated_readout", "IQrotated_heralding", "GMMpredicted_readout",
            "GMMpredicted_heralding", "Mask_heralding", "PopulationNormalized_readout",
            "PopulationCorrected_readout", "to_fit"}
      [] r = "classification" ->
           {"IQrotated_readout", "GMMpredicted_readout", "PopulationNormalized_readout",
            "PopulationCorrected_readout", "to_fit"}
      [] r = "bare" ->
           {"IQrotated_readout", "IQautorotated_readout", "IQaveraged_readout", "to_fit"}
      [] OTHER -> {}

\* The positions inside each routine.
StagesOf(r) ==
    CASE r = "heralding" ->
           {"hd_classify", "ht_begin", "ht_or", "ht_for", "ht_while", "ht_returned",
            "hd_finish"}
      [] r = "classification" -> {"cl_loop"}
      [] r = "bare" -> {"bare_loop"}
      [] OTHER -> {"pd_end"}

Channels == {measurement.keys[a] : a \in 1..Len(measurement.keys)}

\* C5: process_data runs the one routine the flags select in the priority
\* customized > heralding > classification > bare: it is only ever inside that
\* routine, a channel holds no derived key of another routine (none at all under
\* customized), and on return every channel holds the selected routine's keys.
C5_RoutineByPriority ==
    /\ routine \in {"none", Selected}
    /\ \A r \in {"customized", "heralding", "classification", "bare"} :
           pc \in StagesOf(r) => r = Selected
    /\ \A ch \in Channels :
           DOMAIN measurement.data[ch] \subseteq DOMAIN FreshDict(config) \cup DerivedKeys(Selected)
    /\ pc = "returned" =>
           \A ch \in Channels :
               DOMAIN measurement.data[ch] = DOMAIN FreshDict(config) \cup DerivedKeys(Selected)

\* The heralding routine ran to its end with the classification flag set as well.
C5_Witness ==
    /\ pc = "returned"
    /\ ~config.customized /\ config.heralding /\ config.classification
    /\ Len(measurement.keys) = 2
    /\ \A ch \in Channels : Has(measurement.data[ch], "Mask_heralding")

\* sum over a in 1..n of f[a]
RECURSIVE SumTo(_, _)
SumTo(f, n) == IF n = 0 THEN 0 ELSE f[n] + SumTo(f, n - 1)

\* C6 as stated: the stored PopulationCorrected_readout (and to_fit) is the x with
\* corr_matrix^T . x = PopulationNormalized_readout.
C6_SolvesTransposed ==
    \A ch \in Channels :
        Has(measurement.data[ch], "PopulationCorrected_readout") =>
            LET d == measurement.data[ch]
                a == config.res[ch].corr_matrix
                x == d["PopulationCorrected_readout"]
                b == d["PopulationNormalized_readout"]
            IN  /\ d["to_fit"] = x
                /\ \A col \in 1..Len(a), p \in 1..Len(b.den) :
                       SumTo([row \in 1..Len(a) |-> a[row][col] * x.num[row][p]], Len(a))
                           * b.den[p]
                       = x.den[p] * b.num[col][p]

\* C7 as stated: when an error leaves the heralding or classification routine, no
\* partial result is stored: the batch does not hold to_fit for some channels and
\* not for others.
C7_NoPartialToFit ==
    (pc = "raised" /\ routine \in {"heralding", "classification"}) =>
        ~(/\ \E ch \in Channels : Has(measurement.data[ch], "to_fit")
          /\ \E ch \in Channels : ~Has(measurement.data[ch], "to_fit"))

\* C8: the heralding routine on a batch without channels fails at line 148, before
\* any mask exists: heralding_test gets no further and returns nothing, and
\* process_data does not return.
C8_ZeroChannelsFail ==
    (routine = "heralding" /\ Len(measurement.keys) = 0) =>
        /\ pc \in {"hd_classify", "ht_begin", "raised"}
        /\ heralding_mask = <<>>
        /\ pd_mask = <<>>

C8_Witness ==
    /\ routine = "heralding"
    /\ Len(measurement.keys) = 0
    /\ pc = "raised"
    /\ err = "IndexError"

\* The four lengths of a resonator's entry agree.
LengthsAgree(rc) ==
    /\ Len(rc.readout_levels) = Len(rc.IQ_means)
    /\ Len(rc.readout_levels) = Len(rc.IQ_covariances)
    /\ Len(rc.readout_levels) = Len(rc.corr_matrix)

\* What C9 promises of a config loaded from the yaml y.
C9_Post(y, c) ==
    /\ DOMAIN c.res = DOMAIN y.res
    /\ \A r \in DOMAIN c.res :
           LET n == Len(y.res[r].readout_levels)
           IN  /\ c.res[r].n_readout_levels = n
               /\ c.res[r].readout_levels = y.res[r].readout_levels
               /\ LengthsAgree(c.res[r])
               /\ IF LengthsAgree(y.res[r])
                  THEN /\ c.res[r].IQ_means = y.res[r].IQ_means
                       /\ c.res[r].IQ_covariances = y.res[r].IQ_covariances
                       /\ c.res[r].corr_matrix = y.res[r].corr_matrix
                  ELSE /\ c.res[r].corr_matrix =
                              [a \in 1..n |-> [b \in 1..n |-> IF a = b THEN 1 ELSE 0]]
                       /\ c.res[r].IQ_covariances = [a \in 1..n |-> 1]
                       /\ c.res[r].IQ_means = [a \in 1..n |-> <<a - 1, a - 1>>]

\* C9: every load leaves each resonator with n_readout_levels = len(readout_levels)
\* = len(IQ_means) = len(IQ_covariances) = len(corr_matrix): matrices whose lengths
\* agree are kept, the others are replaced by the identity, all ones and [[i, i]];
\* the load does not raise and does not touch the yaml.
C9_LoadRepairsShapes ==
    [][Load => (C9_Post(yaml, config') /\ yaml' = yaml /\ pc' = "idle" /\ err' = "none")]_vars

\* A loaded config with one resonator kept as it was and one regenerated.
C9_Witness ==
    /\ IsLoaded(config)
    /\ C9_Post(yaml, config)
    /\ \E r \in DOMAIN yaml.res :
           /\ ~LengthsAgree(yaml.res[r])
           /\ Len(yaml.res[r].readout_levels) = 2
           /\ config.res[r].corr_matrix = Identity(2)
    /\ \E r \in DOMAIN yaml.res :
           /\ LengthsAgree(yaml.res[r])
           /\ config.res[r].corr_matrix = UpperOnes(2)

\* C10 as stated: when process_data has returned, every channel record of the batch
\* that was passed in holds to_fit.
C10_PassedBatchHasToFit ==
    pc = "returned" =>
        \A a \in 1..Len(ArgBatch.keys) : Has(ArgBatch.data[ArgBatch.keys[a]], "to_fit")

\* The positions inside heralding_test.
InsideTest == {"ht_begin", "ht_or", "ht_for", "ht_while", "ht_returned"}

\* The keys lines 78-87 write to a data_dict, and the keys lines 92-101 write.
ClassifyKeys ==
    {"IQrotated_readout", "IQrotated_heralding", "GMMpredicted_readout",
     "GMMpredicted_heralding"}

FinishKeys ==
    {"Mask_heralding", "PopulationNormalized_readout", "PopulationCorrected_readout",
     "to_fit"}

Classified(r) == \A x \in ClassifyKeys : Has(measurement.data[r], x)

NotFinished(r) == \A x \in FinishKeys : ~Has(measurement.data[r], x)

\* The order of the heralding routine's positions.
Stage(p) ==
    CASE p = "idle" -> 0
      [] p = "dispatch" -> 1
      [] p = "hd_classify" -> 2
      [] p \in InsideTest -> 3
      [] p = "hd_finish" -> 4
      [] OTHER -> 5

\* What holds at each position of the heralding routine.
C11_Stages ==
    routine = "heralding" =>
        /\ pc # "hd_classify" => \A r \in Channels : Classified(r)
        /\ pc \in {"hd_classify"} \cup InsideTest =>
               /\ pd_mask = <<>>
               /\ \A r \in Channels : NotFinished(r)
        /\ pc \in {"hd_finish", "returned"} =>
               /\ pd_mask # <<>>
               /\ pd_mask = heralding_mask
        /\ \A r \in Channels :
               /\ Has(measurement.data[r], "Mask_heralding") =>
                      /\ pd_mask # <<>>
                      /\ measurement.data[r]["Mask_heralding"] = pd_mask
               /\ \A x \in FinishKeys : Has(measurement.data[r], x) =>
                      Has(measurement.data[r], "Mask_heralding")
        /\ pc = "returned" => \A r \in Channels : ~NotFinished(r)

\* One step of the heralding routine: positions only advance, heralding_test is
\* entered from the end of the classification loop alone, and the finishing loop
\* is entered from the return of heralding_test alone.
C11_Step ==
    routine = "heralding" =>
        /\ routine' = "heralding"
        /\ Stage(pc') >= Stage(pc)
        /\ (pc' = "ht_begin" /\ pc # "ht_begin") =>
               /\ pc = "hd_classify"
               /\ \A r \in Channels : Classified(r)
        /\ (pc' = "hd_finish" /\ pc # "hd_finish") => pc = "ht_returned"
        /\ (pc' \in InsideTest /\ pc \in InsideTest) => pc' # "ht_begin"

\* C11: in the heralding routine every channel is rotated and classified (readout
\* and heralding) before heralding_test is called; heralding_test is entered once
\* per call of process_data; no channel is normalized, corrected or given to_fit
\* before the mask exists, and every channel gets that one mask as Mask_heralding.
C11_HeraldingOrder == []C11_Stages /\ [][C11_Step]_vars

C11_Witness ==
    /\ routine = "heralding"
    /\ pc = "returned"
    /\ Len(measurement.keys) = 2
    /\ \A r \in Channels :
           /\ Has(measurement.data[r], "to_fit")
           /\ measurement.data[r]["Mask_heralding"] = pd_mask
    /\ \E r \in 1..NRows(pd_mask), c \in 1..NCols(pd_mask) : pd_mask[r][c] = -1

\* One iteration of the while loop of lines 157-160: the window start moves up,
\* stays within the repetitions, and the column keeps at least n_pass_min passes.
C12_Iteration ==
    HT_While =>
        /\ j' > j
        /\ j' <= NRows(heralding_mask)
        /\ Count0(heralding_mask', i) >= n_pass_min

\* C12: for every combined mask of R >= 1 repetitions and P >= 1 x_points the
\* truncation loop ends: each iteration of the while loop moves j up and leaves at
\* least n_pass_min passes in the column, every column's while loop is left, and
\* heralding_test returns.
C12_LoopTerminates ==
    /\ [][C12_Iteration]_vars
    /\ (pc = "ht_while") ~> (pc = "ht_for")
    /\ (pc = "ht_or") ~> Returned

\* heralding_test has returned after its last column took more than one iteration.
C12_Witness ==
    /\ Returned
    /\ i = NCols(heralding_mask)
    /\ Excess(CombinedMask(measurement), i) > 0
    /\ j > Excess(CombinedMask(measurement), i)

====
